---- MODULE Spec2Model ----
(***************************************************************************)
(* The daily regulatory monitor (api/cron/monitor.ts) and the review       *)
(* dashboard (pages/index.tsx) over the shared store (sources, snapshots,  *)
(* change_events).  Every await of the handler is one step; the store      *)
(* client returns {data, error} and never rejects, fetch() and             *)
(* response.text() reject on transport failure, the completion call        *)
(* rejects on service failure.                                             *)
(***************************************************************************)
EXTENDS Integers, Sequences, FiniteSets, TLC

VARIABLES
    snapshots,      \* table snapshots, in fetched_at order; id = position
    change_events,  \* table change_events, in insertion order; id = position
    pc,             \* position of the handler / checkSource
    sources,        \* handler: the rows read from table sources
    idx,            \* handler: position of the for-of loop in sources
    results,        \* handler: const results = []
    response,       \* the Response the handler returned last
    cur,            \* locals of the running checkSource invocation
    obs,            \* what the running invocation met (history only)
    fetches         \* number of checkSource invocations so far

vars == <<snapshots, change_events, pc, sources, idx, results, response, cur, obs, fetches>>

\* total number of checkSource invocations explored
MaxFetches == 2

-----------------------------------------------------------------------------
(* Values *)

\* SQL NULL / JS null / an absent property, for text columns and for ids
NULL == "NULL"
NullId == 0

\* rows of table sources with is_active = true (id, name; url is not compared)
SourceIds == {"A", "B"}

\* bodies a monitored page can return
Contents == {"v1", "v2"}

\* HTTP statuses with response.ok = false, and the one with response.ok = true
ErrorStatuses == {404, 500}
OkStatus == 200

\* crypto.createHash('sha256').update(rawHtml).digest('hex'): a 64-digit hex
\* text, distinct for distinct bodies and never the empty text
Sha256(html) ==
    CASE html = "v1" -> "sha256:6a8e"
      [] html = "v2" -> "sha256:1f0c"
      [] html = ""   -> "sha256:e3b0"

\* `HTTP ${response.status}`
HttpMessage(status) ==
    CASE status = 404 -> "HTTP 404"
      [] status = 500 -> "HTTP 500"
      [] OTHER        -> "HTTP"

\* error.message of the rejections checkSource can meet
FetchFailedMessage == "fetch failed"
BodyFailedMessage == "terminated"
NullIdMessage == "Cannot read properties of null (reading 'id')"

\* the authorization headers a request can carry
AuthHeaders == {"Bearer secret", "Bearer wrong", NULL}
ExpectedAuth == "Bearer secret"

-----------------------------------------------------------------------------
(* JavaScript values of the parsed analysis: a type tag and the literal *)

JsUndefined == [t |-> "undefined", v |-> ""]
JsNull == [t |-> "null", v |-> ""]
JsString(s) == [t |-> "string", v |-> s]
JsBool(b) == [t |-> "boolean", v |-> IF b THEN "true" ELSE "false"]
JsArray(text) == [t |-> "array", v |-> text]

\* ToBoolean: undefined, null, false and '' are falsy; arrays are truthy
Truthy(x) ==
    /\ x.t \notin {"undefined", "null"}
    /\ ~(x.t = "string" /\ x.v = "")
    /\ ~(x.t = "boolean" /\ x.v = "false")

\* a || b
JsOr(a, b) == IF Truthy(a) THEN a ELSE b

\* Boolean(a) in the place of a !== false
NotStrictlyFalse_Truthy(a) == Truthy(a)

\* a !== false
NotStrictlyFalse(a) == ~(a.t = "boolean" /\ a.v = "false")

\* the object literal { summary, tags, status, effectiveDate, needsReview }
JsObject(summary, tags, status, effectiveDate, needsReview) ==
    [summary |-> summary, tags |-> tags, status |-> status,
     effectiveDate |-> effectiveDate, needsReview |-> needsReview]

-----------------------------------------------------------------------------
(* The analysis service and analyzeDiff *)

\* message.content of a completion: absent, prose that is no JSON, and JSON texts
ProseText == "I cannot analyze this page."
EmptyJson == "{}"
NullJson == "null"
FullJson == "{\"summary\":\"New labeling rule\",\"tags\":[\"labeling\"],\"status\":\"final\",\"effectiveDate\":\"2026-01-01\",\"needsReview\":false}"
OddJson == "{\"summary\":\"\",\"status\":\"enacted\",\"needsReview\":\"false\"}"

CompletionContents == {NULL, ProseText, EmptyJson, NullJson, FullJson, OddJson}

\* what openai.chat.completions.create can do: reject, or resolve with a content
CompletionOutcomes ==
    {[rejected |-> TRUE, content |-> NULL]}
        \cup {[rejected |-> FALSE, content |-> c] : c \in CompletionContents}

\* JSON.parse throws a SyntaxError on these texts
JsonSyntaxError(text) == text = ProseText

\* JSON.parse of the other texts; properties a text does not carry are undefined
JsonParse(text) ==
    CASE text = EmptyJson ->
            JsObject(JsUndefined, JsUndefined, JsUndefined, JsUndefined, JsUndefined)
      [] text = FullJson ->
            JsObject(JsString("New labeling rule"), JsArray("[\"labeling\"]"),
                     JsString("final"), JsString("2026-01-01"), JsBool(FALSE))
      [] text = OddJson ->
            JsObject(JsString(""), JsUndefined, JsString("enacted"), JsUndefined,
                     JsString("false"))

\* the AnalysisResult of the catch block of analyzeDiff
FailedAnalysis ==
    [summary |-> JsString("Change detected. LLM analysis failed - manual review required."),
     tags |-> JsArray("[\"analysis-error\"]"),
     status |-> JsString("unknown"),
     effectiveDate |-> JsNull,
     needsReview |-> TRUE]

\* the AnalysisResult built from a parsed object
NormalizedAnalysis(analysis) ==
    [summary |-> JsOr(analysis.summary, JsString("Change detected, analysis incomplete")),
     tags |-> JsOr(analysis.tags, JsArray("[]")),
     status |-> JsOr(analysis.status, JsString("unknown")),
     effectiveDate |-> JsOr(analysis.effectiveDate, JsNull),
     needsReview |-> NotStrictlyFalse(analysis.needsReview)]

\* the try block of analyzeDiff throws: the call rejected, the content is no
\* JSON, or the parsed value is null and reading analysis.summary throws
AnalysisThrows(completion) ==
    \/ completion.rejected
    \/ LET text == IF completion.content = NULL THEN EmptyJson ELSE completion.content
       IN  JsonSyntaxError(text) \/ text = NullJson

\* analyzeDiff, as a function of what the service did
analyzeDiff(completion) ==
    IF AnalysisThrows(completion)
    THEN FailedAnalysis
    ELSE NormalizedAnalysis(
            JsonParse(IF completion.content = NULL THEN EmptyJson ELSE completion.content))

\* before analyzeDiff has run
NoAnalysis ==
    [summary |-> JsUndefined, tags |-> JsUndefined, status |-> JsUndefined,
     effectiveDate |-> JsUndefined, needsReview |-> TRUE]

-----------------------------------------------------------------------------
(* Rows *)

NoStatus == 0

\* data: null of a query, with the shape of a snapshots row
NullSnapshot ==
    [id |-> NullId, source_id |-> NULL, raw_html |-> NULL, raw_hash |-> NULL,
     fetch_status |-> NULL, error_message |-> NULL, http_status |-> NoStatus]

\* the row an insert into snapshots creates
SnapshotRow(table, sourceId, html, hash, status, errorMsg, httpStatus) ==
    [id |-> Len(table) + 1, source_id |-> sourceId, raw_html |-> html, raw_hash |-> hash,
     fetch_status |-> status, error_message |-> errorMsg, http_status |-> httpStatus]

\* the row an insert into change_events creates (reviewed_at defaults to null)
ChangeEventRow(table, sourceId, before, after, analysis) ==
    [id |-> Len(table) + 1, source_id |-> sourceId,
     snapshot_before_id |-> before, snapshot_after_id |-> after,
     change_summary |-> analysis.summary, tags |-> analysis.tags,
     status |-> analysis.status, effective_date |-> analysis.effectiveDate,
     needs_review |-> analysis.needsReview, reviewed_at |-> NULL]

\* positions of the rows of a source in a table
RowsOf(table, sourceId) == {i \in 1..Len(table) : table[i].source_id = sourceId}

\* .eq('source_id', id).order('fetched_at', {ascending: false}).limit(1).single():
\* the newest row of the source, or data: null when it has none
LatestSnapshot(table, sourceId) ==
    IF RowsOf(table, sourceId) = {}
    THEN NullSnapshot
    ELSE table[CHOOSE i \in RowsOf(table, sourceId) :
                   \A j \in RowsOf(table, sourceId) : j <= i]

\* saveSnapshot: the insert's result is not looked at
saveSnapshot(table, stored, sourceId, html, hash, status, errorMsg, httpStatus) ==
    IF stored
    THEN Append(table, SnapshotRow(table, sourceId, html, hash, status, errorMsg, httpStatus))
    ELSE table

\* the entries checkSource returns; properties it does not set are absent
ResultEntry(source, status, summary, error, httpStatus) ==
    [source |-> source, status |-> status, summary |-> summary,
     error |-> error, httpStatus |-> httpStatus]

\* the orders in which the sources query can return the active rows
RECURSIVE Orderings(_)
Orderings(S) ==
    IF S = {} THEN {<<>>}
    ELSE UNION {{<<x>> \o rest : rest \in Orderings(S \ {x})} : x \in S}

ActiveLists == UNION {Orderings(S) : S \in SUBSET SourceIds}

-----------------------------------------------------------------------------
(* State *)

\* the Responses of the handler: none yet, 401, the report, the failure report
NoResponse == [kind |-> "none", status |-> NoStatus, success |-> FALSE, error |-> NULL, results |-> <<>>]
Unauthorized == [kind |-> "unauthorized", status |-> 401, success |-> FALSE, error |-> NULL, results |-> <<>>]
Report(res) == [kind |-> "report", status |-> OkStatus, success |-> TRUE, error |-> NULL, results |-> res]
FailureReport(message) == [kind |-> "failure", status |-> 500, success |-> FALSE, error |-> message, results |-> <<>>]

ListFailedMessage == "could not read sources"

\* locals of checkSource before its first statement
NoCall ==
    [source |-> NULL, status |-> NoStatus, rawHtml |-> NULL, rawHash |-> NULL,
     lastSnapshot |-> NullSnapshot, newSnapshot |-> NullSnapshot,
     analysis |-> NoAnalysis, message |-> NULL,
     result |-> ResultEntry(NULL, NULL, JsUndefined, NULL, NoStatus)]

\* before the analysis service has been called
NoCompletion == [rejected |-> FALSE, content |-> NULL]

\* history of an invocation: the table sizes when it began, how the fetch ended,
\* the store calls that returned an error, the calls made to the analysis service
\* and what the last one did, and the steps taken so far in their order
NoObs ==
    [base |-> 0, evBase |-> 0, fetch |-> NULL, failed |-> {}, llmCalls |-> 0,
     llmFailed |-> FALSE, completion |-> NoCompletion, steps |-> <<>>]

Init ==
    /\ snapshots = <<>>
    /\ change_events = <<>>
    /\ pc = "idle"
    /\ sources = <<>>
    /\ idx = 1
    /\ results = <<>>
    /\ response = NoResponse
    /\ cur = NoCall
    /\ obs = NoObs
    /\ fetches = 0

-----------------------------------------------------------------------------
(* handler *)

\* Request with a request that carries no authorization header let through
Request_AdmitsMissingHeader(authHeader) ==
    /\ pc = "idle"
    /\ IF authHeader # ExpectedAuth /\ authHeader # NULL
       THEN /\ response' = Unauthorized
            /\ pc' = "idle"
       ELSE /\ response' = NoResponse
            /\ pc' = "list"
    /\ sources' = <<>>
    /\ idx' = 1
    /\ results' = <<>>
    /\ UNCHANGED <<snapshots, change_events, cur, obs, fetches>>

\* lines 25-32: a request arrives; the bearer check
Request(authHeader) ==
    /\ pc = "idle"
    /\ IF authHeader # ExpectedAuth
       THEN /\ response' = Unauthorized
            /\ pc' = "idle"
       ELSE /\ response' = NoResponse
            /\ pc' = "list"
    /\ sources' = <<>>
    /\ idx' = 1
    /\ results' = <<>>
    /\ UNCHANGED <<snapshots, change_events, cur, obs, fetches>>

\* lines 34-43, 59-68: read the active sources; an error is thrown to the catch
ListSources(listed, rows) ==
    /\ pc = "list"
    /\ IF listed
       THEN /\ Len(rows) <= MaxFetches - fetches
            /\ sources' = rows
            /\ pc' = "loop"
            /\ UNCHANGED response
       ELSE /\ rows = <<>>
            /\ response' = FailureReport(ListFailedMessage)
            /\ pc' = "idle"
            /\ UNCHANGED sources
    /\ results' = <<>>
    /\ idx' = 1
    /\ UNCHANGED <<snapshots, change_events, cur, obs, fetches>>

\* lines 45-47: the loop takes the next source and calls checkSource
CallCheckSource ==
    /\ pc = "loop"
    /\ idx <= Len(sources)
    /\ cur' = [NoCall EXCEPT !.source = sources[idx]]
    /\ obs' = [NoObs EXCEPT !.base = Len(snapshots), !.evBase = Len(change_events)]
    /\ fetches' = fetches + 1
    /\ pc' = "fetch"
    /\ UNCHANGED <<snapshots, change_events, sources, idx, results, response>>

\* Return with the entries of failed sources left out of the results
Return_DropsErrors ==
    /\ pc = "return"
    /\ results' = IF cur.result.status = "error" THEN results
                  ELSE Append(results, cur.result)
    /\ idx' = idx + 1
    /\ cur' = NoCall
    /\ obs' = NoObs
    /\ pc' = "loop"
    /\ UNCHANGED <<snapshots, change_events, sources, response, fetches>>

\* lines 47-48: checkSource has returned; results.push(result)
Return ==
    /\ pc = "return"
    /\ results' = Append(results, cur.result)
    /\ idx' = idx + 1
    /\ cur' = NoCall
    /\ obs' = NoObs
    /\ pc' = "loop"
    /\ UNCHANGED <<snapshots, change_events, sources, response, fetches>>

\* lines 51-57: the loop is over; the success report
Respond ==
    /\ pc = "loop"
    /\ idx > Len(sources)
    /\ response' = Report(results)
    /\ pc' = "idle"
    /\ UNCHANGED <<snapshots, change_events, sources, idx, results, cur, obs, fetches>>

-----------------------------------------------------------------------------
(* checkSource *)

\* lines 74-86: fetch and response.text(); either can reject
Fetch(outcome, status, html) ==
    /\ pc = "fetch"
    /\ \/ /\ outcome = "transport"
          /\ status = NoStatus /\ html = NULL
          /\ cur' = [cur EXCEPT !.message = FetchFailedMessage]
          /\ pc' = "catch"
       \/ /\ outcome = "http"
          /\ status \in ErrorStatuses /\ html = NULL
          /\ cur' = [cur EXCEPT !.status = status]
          /\ pc' = "httpError"
       \/ /\ outcome = "body"
          /\ status = OkStatus /\ html = NULL
          /\ cur' = [cur EXCEPT !.status = status, !.message = BodyFailedMessage]
          /\ pc' = "catch"
       \/ /\ outcome = "ok"
          /\ status = OkStatus /\ html \in Contents
          /\ cur' = [cur EXCEPT !.status = status, !.rawHtml = html, !.rawHash = Sha256(html)]
          /\ pc' = "getLatest"
    /\ obs' = [obs EXCEPT !.fetch = outcome, !.steps = Append(@, "fetch")]
    /\ UNCHANGED <<snapshots, change_events, sources, idx, results, response, fetches>>

\* lines 80-83: the error snapshot of a response that is not ok
HttpError(stored) ==
    /\ pc = "httpError"
    /\ snapshots' = saveSnapshot(snapshots, stored, cur.source, "", "", "error",
                                 HttpMessage(cur.status), cur.status)
    /\ cur' = [cur EXCEPT !.result =
                  ResultEntry(cur.source, "error", JsUndefined, NULL, cur.status)]
    /\ obs' = [obs EXCEPT !.failed = IF stored THEN @ ELSE @ \cup {"errorSnapshot"},
                           !.steps = Append(@, "errorSnapshot")]
    /\ pc' = "return"
    /\ UNCHANGED <<change_events, sources, idx, results, response, fetches>>

\* GetLatest with a query that is not restricted to the rows of the source
GetLatest_AnySource(read) ==
    /\ pc = "getLatest"
    /\ read \/ RowsOf(snapshots, cur.source) # {}
    /\ cur' = [cur EXCEPT !.lastSnapshot =
                  IF read /\ snapshots # <<>> THEN snapshots[Len(snapshots)]
                  ELSE NullSnapshot]
    /\ obs' = [obs EXCEPT !.failed = IF read THEN @ ELSE @ \cup {"read"},
                           !.steps = Append(@, "read")]
    /\ pc' = "insertSnapshot"
    /\ UNCHANGED <<snapshots, change_events, sources, idx, results, response, fetches>>

\* lines 88-95: the most recent snapshot; data is null on an error, and
\* .single() answers data: null for a source without rows whether or not the
\* query went through, so a failed read is told apart only when a row exists
GetLatest(read) ==
    /\ pc = "getLatest"
    /\ read \/ RowsOf(snapshots, cur.source) # {}
    /\ cur' = [cur EXCEPT !.lastSnapshot =
                  IF read THEN LatestSnapshot(snapshots, cur.source) ELSE NullSnapshot]
    /\ obs' = [obs EXCEPT !.failed = IF read THEN @ ELSE @ \cup {"read"},
                           !.steps = Append(@, "read")]
    /\ pc' = "insertSnapshot"
    /\ UNCHANGED <<snapshots, change_events, sources, idx, results, response, fetches>>

\* line 111: lastSnapshot && lastSnapshot.raw_hash === rawHash
Unchanged(lastSnapshot, rawHash) ==
    lastSnapshot # NullSnapshot /\ lastSnapshot.raw_hash = rawHash

\* InsertSnapshot without the early return of the unchanged path
InsertSnapshot_AlwaysAnalyzes(stored) ==
    /\ pc = "insertSnapshot"
    /\ LET row == SnapshotRow(snapshots, cur.source, cur.rawHtml, cur.rawHash,
                              "success", NULL, cur.status)
       IN  /\ snapshots' = IF stored THEN Append(snapshots, row) ELSE snapshots
           /\ cur' = [cur EXCEPT !.newSnapshot = IF stored THEN row ELSE NullSnapshot]
           /\ pc' = "analyze"
    /\ obs' = [obs EXCEPT !.failed = IF stored THEN @ ELSE @ \cup {"write"},
                           !.steps = @ \o <<"write", "compare">>]
    /\ UNCHANGED <<change_events, sources, idx, results, response, fetches>>

\* lines 97-117: insert the snapshot (data is null on an error), then compare
InsertSnapshot(stored) ==
    /\ pc = "insertSnapshot"
    /\ LET row == SnapshotRow(snapshots, cur.source, cur.rawHtml, cur.rawHash,
                              "success", NULL, cur.status)
       IN  /\ snapshots' = IF stored THEN Append(snapshots, row) ELSE snapshots
           /\ IF Unchanged(cur.lastSnapshot, cur.rawHash)
              THEN /\ cur' = [cur EXCEPT
                                 !.newSnapshot = IF stored THEN row ELSE NullSnapshot,
                                 !.result = ResultEntry(cur.source, "unchanged",
                                                        JsUndefined, NULL, NoStatus)]
                   /\ pc' = "return"
              ELSE /\ cur' = [cur EXCEPT
                                 !.newSnapshot = IF stored THEN row ELSE NullSnapshot]
                   /\ pc' = "analyze"
    /\ obs' = [obs EXCEPT !.failed = IF stored THEN @ ELSE @ \cup {"write"},
                           !.steps = @ \o <<"write", "compare">>]
    /\ UNCHANGED <<change_events, sources, idx, results, response, fetches>>

\* lines 118-122: analyzeDiff, which calls the service once and never throws
Analyze(completion) ==
    /\ pc = "analyze"
    /\ cur' = [cur EXCEPT !.analysis = analyzeDiff(completion)]
    /\ obs' = [obs EXCEPT !.llmCalls = @ + 1, !.llmFailed = AnalysisThrows(completion),
                           !.completion = completion, !.steps = Append(@, "analyze")]
    /\ pc' = "insertEvent"
    /\ UNCHANGED <<snapshots, change_events, sources, idx, results, response, fetches>>

\* line 129: lastSnapshot?.id || null
BeforeId(lastSnapshot) ==
    IF lastSnapshot = NullSnapshot THEN NullId ELSE lastSnapshot.id

\* InsertEvent with newSnapshot?.id: no throw on a null newSnapshot
InsertEvent_OptionalId(stored) ==
    /\ pc = "insertEvent"
    /\ change_events' =
          IF stored
          THEN Append(change_events,
                      ChangeEventRow(change_events, cur.source,
                                     BeforeId(cur.lastSnapshot),
                                     cur.newSnapshot.id, cur.analysis))
          ELSE change_events
    /\ cur' = [cur EXCEPT !.result =
                  ResultEntry(cur.source, "changed", cur.analysis.summary,
                              NULL, NoStatus)]
    /\ obs' = [obs EXCEPT !.failed = IF stored THEN @ ELSE @ \cup {"event"},
                           !.steps = Append(@, "event")]
    /\ pc' = "return"
    /\ UNCHANGED <<snapshots, sources, idx, results, response, fetches>>

\* lines 124-142: newSnapshot.id throws when newSnapshot is null; otherwise the
\* change event is inserted, its result is not looked at, and 'changed' returned
InsertEvent(stored) ==
    /\ pc = "insertEvent"
    /\ IF cur.newSnapshot = NullSnapshot
       THEN /\ stored = FALSE
            /\ cur' = [cur EXCEPT !.message = NullIdMessage]
            /\ pc' = "catch"
            /\ UNCHANGED <<change_events, obs>>
       ELSE /\ change_events' =
                  IF stored
                  THEN Append(change_events,
                              ChangeEventRow(change_events, cur.source,
                                             BeforeId(cur.lastSnapshot),
                                             cur.newSnapshot.id, cur.analysis))
                  ELSE change_events
            /\ cur' = [cur EXCEPT !.result =
                          ResultEntry(cur.source, "changed", cur.analysis.summary,
                                      NULL, NoStatus)]
            /\ obs' = [obs EXCEPT !.failed = IF stored THEN @ ELSE @ \cup {"event"},
                                   !.steps = Append(@, "event")]
            /\ pc' = "return"
    /\ UNCHANGED <<snapshots, sources, idx, results, response, fetches>>

\* Catch with a failed error-snapshot insert thrown on to the handler's catch
Catch_Rethrows(stored) ==
    /\ pc = "catch"
    /\ IF stored
       THEN /\ snapshots' = saveSnapshot(snapshots, stored, cur.source, "", "", "error",
                                         cur.message, NoStatus)
            /\ cur' = [cur EXCEPT !.result =
                          ResultEntry(cur.source, "error", JsUndefined, cur.message, NoStatus)]
            /\ obs' = [obs EXCEPT !.steps = Append(@, "errorSnapshot")]
            /\ pc' = "return"
            /\ UNCHANGED response
       ELSE /\ response' = FailureReport(cur.message)
            /\ cur' = NoCall
            /\ obs' = NoObs
            /\ pc' = "idle"
            /\ UNCHANGED snapshots
    /\ UNCHANGED <<change_events, sources, idx, results, fetches>>

\* lines 144-148: the catch block; the error snapshot, then the 'error' entry
Catch(stored) ==
    /\ pc = "catch"
    /\ snapshots' = saveSnapshot(snapshots, stored, cur.source, "", "", "error",
                                 cur.message, NoStatus)
    /\ cur' = [cur EXCEPT !.result =
                  ResultEntry(cur.source, "error", JsUndefined, cur.message, NoStatus)]
    /\ obs' = [obs EXCEPT !.failed = IF stored THEN @ ELSE @ \cup {"errorSnapshot"},
                           !.steps = Append(@, "errorSnapshot")]
    /\ pc' = "return"
    /\ UNCHANGED <<change_events, sources, idx, results, response, fetches>>

-----------------------------------------------------------------------------
(* Dashboard *)

\* new Date().toISOString() of a review
ReviewTime == "2026-01-02T00:00:00.000Z"

\* lines 76-80 of the dashboard: the rows the review filter keeps
MatchesFilter(row, filterReview) ==
    CASE filterReview = "pending"  -> row.needs_review /\ row.reviewed_at = NULL
      [] filterReview = "reviewed" -> row.reviewed_at # NULL
      [] OTHER                     -> TRUE

\* the update of markReviewed without reviewed_at
ReviewedRow_NoTimestamp(row) == [row EXCEPT !.needs_review = FALSE]

\* lines 92-99 of the dashboard: the update of markReviewed on one row
ReviewedRow(row) == [row EXCEPT !.needs_review = FALSE, !.reviewed_at = ReviewTime]

\* markReviewed with an update that is not restricted to the row with the id
markReviewed_EveryRow(changeId, updated) ==
    /\ changeId \in 1..Len(change_events)
    /\ MatchesFilter(change_events[changeId], "pending")
    /\ change_events' =
          IF updated
          THEN [e \in 1..Len(change_events) |-> ReviewedRow(change_events[e])]
          ELSE change_events
    /\ UNCHANGED <<snapshots, pc, sources, idx, results, response, cur, obs, fetches>>

\* lines 92-104, 226-233 of the dashboard: Mark Reviewed is offered on a row
\* shown as pending; the update changes the row with that id, or fails
markReviewed(changeId, updated) ==
    /\ changeId \in 1..Len(change_events)
    /\ MatchesFilter(change_events[changeId], "pending")
    /\ change_events' =
          IF updated
          THEN [change_events EXCEPT ![changeId] = ReviewedRow(@)]
          ELSE change_events
    /\ UNCHANGED <<snapshots, pc, sources, idx, results, response, cur, obs, fetches>>

-----------------------------------------------------------------------------

Next ==
    \/ \E authHeader \in AuthHeaders : Request(authHeader)
    \/ \E listed \in BOOLEAN, rows \in ActiveLists : ListSources(listed, rows)
    \/ CallCheckSource
    \/ \E outcome \in {"transport", "http", "body", "ok"},
          status \in ErrorStatuses \cup {OkStatus, NoStatus},
          html \in Contents \cup {NULL} : Fetch(outcome, status, html)
    \/ \E stored \in BOOLEAN : HttpError(stored)
    \/ \E read \in BOOLEAN : GetLatest(read)
    \/ \E stored \in BOOLEAN : InsertSnapshot(stored)
    \/ \E completion \in CompletionOutcomes : Analyze(completion)
    \/ \E stored \in BOOLEAN : InsertEvent(stored)
    \/ \E stored \in BOOLEAN : Catch(stored)
    \/ Return
    \/ Respond
    \/ \E changeId \in 1..MaxFetches, updated \in BOOLEAN : markReviewed(changeId, updated)

Spec == Init /\ [][Next]_vars

-----------------------------------------------------------------------------
(* What an invocation of checkSource did, read at its return *)

\* checkSource has returned and its entry is about to be pushed
Returned == pc = "return"

\* the snapshots of the source written by the running invocation
NewSnapshots ==
    {i \in (obs.base + 1)..Len(snapshots) : snapshots[i].source_id = cur.source}

\* the change events of the source written by the running invocation
NewEvents ==
    {i \in (obs.evBase + 1)..Len(change_events) : change_events[i].source_id = cur.source}

\* the most recent snapshot the source had when the invocation began
PreviousSnapshot == LatestSnapshot(SubSeq(snapshots, 1, obs.base), cur.source)

\* every store call of the invocation was answered without an error
StoreAnswered == obs.failed = {}

\* a summary that is a non-empty text
NonEmptyText(x) == x.t = "string" /\ x.v # ""

\* the change events whose after-snapshot is the snapshot with this id
EventsAfter(source, id) ==
    {e \in 1..Len(change_events) :
        /\ change_events[e].source_id = source
        /\ change_events[e].snapshot_after_id = id}

-----------------------------------------------------------------------------
(* C1 *)

\* C1: a ChangeEvent exists for (source, after-snapshot) exactly when
\* checkSource returned 'changed' for the fetch that wrote that snapshot, and no
\* (source, after-snapshot) pair has two ChangeEvents.
C1_EventIffChanged ==
    /\ \A i \in 1..Len(snapshots) :
          Cardinality(EventsAfter(snapshots[i].source_id, i)) <= 1
    /\ Returned =>
          \A i \in NewSnapshots :
             (EventsAfter(cur.source, i) # {}) <=> (cur.result.status = "changed")

\* C1, for the invocations whose store calls were all answered
C1_WhenStoreAnswers ==
    /\ \A i \in 1..Len(snapshots) :
          Cardinality(EventsAfter(snapshots[i].source_id, i)) <= 1
    /\ (Returned /\ StoreAnswered) =>
          \A i \in NewSnapshots :
             (EventsAfter(cur.source, i) # {}) <=> (cur.result.status = "changed")

-----------------------------------------------------------------------------
(* C2 *)

\* C2: every invocation of checkSource, whatever its outcome, adds exactly one
\* snapshot row for its source.
C2_OneSnapshotPerFetch ==
    Returned => Cardinality(NewSnapshots) = 1

\* C2, for the invocations whose store calls were all answered; and never two
C2_WhenStoreAnswers ==
    Returned =>
        /\ Cardinality(NewSnapshots) <= 1
        /\ StoreAnswered => Cardinality(NewSnapshots) = 1

-----------------------------------------------------------------------------
(* C3 *)

\* a step of the invocation other than the analysis failed
StepFailed == obs.fetch \in {"transport", "http", "body"} \/ obs.failed # {}

\* C3: a failure of a fetch, of a snapshot read or write, of the event insert or
\* of the recording of the error snapshot is reported as an 'error' entry of the
\* source, and the entry is pushed so that the loop goes on.  (A failed analysis
\* is reported as 'changed', C5, and is left out of this formula.)
C3_FailureIsErrorEntry ==
    (Returned /\ StepFailed) =>
        /\ cur.result.status = "error"
        /\ cur.result.source = cur.source
        /\ ENABLED Return

\* the part of C3 that holds: a failed fetch is an 'error' entry, and whatever
\* failed the entry is pushed and the loop takes the next source or responds
C3_RunGoesOn ==
    /\ (Returned /\ obs.fetch \in {"transport", "http", "body"}) =>
          cur.result.status = "error"
    /\ Returned => ENABLED Return
    /\ pc = "loop" => (ENABLED CallCheckSource \/ ENABLED Respond)

-----------------------------------------------------------------------------
(* C4 *)

\* C4: once the insert of the new snapshot has failed, the analysis service is
\* not called, no ChangeEvent is created for the fetch, and the entry returned
\* is 'error'.
C4_WriteFailureIsFatal ==
    ("write" \in obs.failed) =>
        /\ obs.llmCalls = 0
        /\ NewEvents = {}
        /\ Returned => cur.result.status = "error"

\* the part of C4 that holds: no ChangeEvent is created after a failed insert
C4_NoEventAfterWriteFailure ==
    ("write" \in obs.failed) => NewEvents = {}

-----------------------------------------------------------------------------
(* C5 *)

\* the row was inserted with needs_review = true: it still is, or a review
\* has cleared it since (markReviewed alone does, and it sets reviewed_at)
InsertedNeedingReview(row) == row.needs_review \/ row.reviewed_at # NULL

\* the change events of the invocation that record a failed analysis
FailedAnalysisEvents ==
    {e \in NewEvents :
        /\ InsertedNeedingReview(change_events[e])
        /\ change_events[e].status = JsString("unknown")
        /\ NonEmptyText(change_events[e].change_summary)}

\* C5: when the analysis call throws or returns unparsable output for a
\* detected change, a ChangeEvent is still created, with needs_review = true,
\* status 'unknown' and a non-empty summary, and the entry is 'changed'.
C5_FailedAnalysisStillRecorded ==
    (Returned /\ obs.llmFailed) =>
        /\ FailedAnalysisEvents # {}
        /\ cur.result.status = "changed"

\* C5, for the invocations whose store calls were all answered
C5_WhenStoreAnswers ==
    (Returned /\ obs.llmFailed /\ StoreAnswered) =>
        /\ FailedAnalysisEvents # {}
        /\ cur.result.status = "changed"

-----------------------------------------------------------------------------
(* C6 *)

\* the fetch of the invocation succeeded and the source had no snapshot before
FirstObservation ==
    Returned /\ obs.fetch = "ok" /\ PreviousSnapshot = NullSnapshot

\* one new 'success' snapshot carrying the hash of the fetched content
OneSuccessSnapshot ==
    /\ Cardinality(NewSnapshots) = 1
    /\ \A i \in NewSnapshots :
          /\ snapshots[i].fetch_status = "success"
          /\ snapshots[i].raw_html = cur.rawHtml
          /\ snapshots[i].raw_hash = Sha256(cur.rawHtml)

\* one new change event, from the given snapshot to the new one
OneEventFrom(before) ==
    /\ Cardinality(NewEvents) = 1
    /\ \A e \in NewEvents :
          /\ change_events[e].snapshot_before_id = before
          /\ change_events[e].snapshot_after_id \in NewSnapshots

\* C6: a successful fetch of a source without any snapshot creates exactly one
\* 'success' snapshot with the hash of the content and exactly one ChangeEvent
\* with snapshot_before_id = null and snapshot_after_id = the new snapshot, and
\* the entry is 'changed' with a non-empty summary.
C6_FirstObservation ==
    FirstObservation =>
        /\ OneSuccessSnapshot
        /\ OneEventFrom(NullId)
        /\ cur.result.status = "changed"
        /\ NonEmptyText(cur.result.summary)

\* C6, for the invocations whose store calls were all answered
C6_WhenStoreAnswers ==
    (FirstObservation /\ StoreAnswered) =>
        /\ OneSuccessSnapshot
        /\ OneEventFrom(NullId)
        /\ cur.result.status = "changed"
        /\ NonEmptyText(cur.result.summary)

-----------------------------------------------------------------------------
(* C7 *)

\* the fetch succeeded with the fingerprint of the most recent snapshot
SameAsPrevious ==
    /\ Returned /\ obs.fetch = "ok"
    /\ PreviousSnapshot # NullSnapshot
    /\ PreviousSnapshot.raw_hash = Sha256(cur.rawHtml)

\* C7: when the most recent snapshot has the fingerprint of the fetched content,
\* the invocation creates exactly one 'success' snapshot with that fingerprint
\* and no ChangeEvent, does not call the analysis service, and returns
\* 'unchanged'.
C7_Unchanged ==
    SameAsPrevious =>
        /\ OneSuccessSnapshot
        /\ NewEvents = {}
        /\ obs.llmCalls = 0
        /\ cur.result.status = "unchanged"

\* C7, for the invocations whose store calls were all answered
C7_WhenStoreAnswers ==
    (SameAsPrevious /\ StoreAnswered) =>
        /\ OneSuccessSnapshot
        /\ NewEvents = {}
        /\ obs.llmCalls = 0
        /\ cur.result.status = "unchanged"

-----------------------------------------------------------------------------
(* C8 *)

\* the fetch succeeded with another fingerprint than the most recent snapshot's
DiffersFromPrevious ==
    /\ Returned /\ obs.fetch = "ok"
    /\ PreviousSnapshot # NullSnapshot
    /\ PreviousSnapshot.raw_hash # Sha256(cur.rawHtml)

\* C8: when the fetched content has another fingerprint than the most recent
\* snapshot, the invocation creates exactly one snapshot and exactly one
\* ChangeEvent, whose snapshot_after_id is the new snapshot and whose
\* snapshot_before_id is the snapshot that was the most recent, and returns
\* 'changed'.
C8_Changed ==
    DiffersFromPrevious =>
        /\ Cardinality(NewSnapshots) = 1
        /\ OneEventFrom(PreviousSnapshot.id)
        /\ cur.result.status = "changed"

\* C8, for the invocations whose store calls were all answered
C8_WhenStoreAnswers ==
    (DiffersFromPrevious /\ StoreAnswered) =>
        /\ Cardinality(NewSnapshots) = 1
        /\ OneEventFrom(PreviousSnapshot.id)
        /\ cur.result.status = "changed"

-----------------------------------------------------------------------------
(* C9 *)

\* one new 'error' snapshot with empty content and the given status and message
OneErrorSnapshot(httpStatus, message) ==
    /\ Cardinality(NewSnapshots) = 1
    /\ \A i \in NewSnapshots :
          /\ snapshots[i].fetch_status = "error"
          /\ snapshots[i].raw_html = ""
          /\ snapshots[i].http_status = httpStatus
          /\ snapshots[i].error_message = message

\* the rest of C9: no event, no analysis call, an 'error' entry with the status
HttpErrorEntry ==
    /\ NewEvents = {}
    /\ obs.llmCalls = 0
    /\ cur.result.status = "error"
    /\ cur.result.httpStatus = cur.status

\* C9: a fetch answered with a non-success HTTP status produces one snapshot
\* with fetch_status 'error', empty content and that http_status, no
\* ChangeEvent and no analysis call, and an 'error' entry carrying the status.
C9_HttpError ==
    (Returned /\ obs.fetch = "http") =>
        /\ cur.status \in ErrorStatuses
        /\ OneErrorSnapshot(cur.status, HttpMessage(cur.status))
        /\ HttpErrorEntry

\* C9, for the invocations whose store calls were all answered
C9_WhenStoreAnswers ==
    (Returned /\ obs.fetch = "http") =>
        /\ cur.status \in ErrorStatuses
        /\ StoreAnswered => OneErrorSnapshot(cur.status, HttpMessage(cur.status))
        /\ HttpErrorEntry

-----------------------------------------------------------------------------
(* C10 *)

\* the rest of C10: no event, an 'error' entry with the message, the loop goes on
TransportErrorEntry ==
    /\ NewEvents = {}
    /\ cur.result.status = "error"
    /\ cur.result.error = FetchFailedMessage
    /\ ENABLED Return

\* C10: a fetch that fails at transport level produces exactly one 'error'
\* snapshot with null http_status and the error message, no ChangeEvent, the
\* entry {status: 'error', error: message}, and the run goes on with the next
\* source.
C10_TransportError ==
    (Returned /\ obs.fetch = "transport") =>
        /\ OneErrorSnapshot(NoStatus, FetchFailedMessage)
        /\ TransportErrorEntry

\* C10, for the invocations whose store calls were all answered
C10_WhenStoreAnswers ==
    (Returned /\ obs.fetch = "transport") =>
        /\ StoreAnswered => OneErrorSnapshot(NoStatus, FetchFailedMessage)
        /\ TransportErrorEntry

-----------------------------------------------------------------------------
(* C11 *)

\* the statuses of a run report entry
EntryStatuses == {"unchanged", "changed", "error"}

\* the entries are those of the first n sources read, in their order
EntriesFor(entries, n) ==
    /\ Len(entries) = n
    /\ \A i \in 1..n :
          /\ entries[i].source = sources[i]
          /\ entries[i].status \in EntryStatuses

\* C11: once the active sources have been read, the results hold one entry per
\* source processed so far, in processing order, each 'unchanged', 'changed' or
\* 'error'; the run cannot stop before its response, and the response is the
\* report {success: true} with exactly one entry per source read, also when
\* sources failed.
C11_ReportShape ==
    /\ pc \notin {"idle", "list"} =>
          /\ response = NoResponse
          /\ EntriesFor(results, idx - 1)
          /\ idx <= Len(sources) + 1
    /\ pc \notin {"idle", "list", "loop"} => idx <= Len(sources)
    /\ pc = "return" => ENABLED Return
    /\ pc = "loop" => (ENABLED CallCheckSource \/ ENABLED Respond)
    /\ response.kind = "report" =>
          /\ response.success = TRUE
          /\ pc = "idle"
          /\ EntriesFor(response.results, Len(sources))

\* a report of two sources that both failed
C11_Witness ==
    /\ response.kind = "report"
    /\ Len(response.results) = 2
    /\ \A i \in 1..2 : response.results[i].status = "error"

-----------------------------------------------------------------------------
(* C12 *)

\* a step reads the sources, starts a fetch, calls the analysis service or
\* writes a snapshot or a change event
WorkStep ==
    \/ sources' # sources /\ sources' # <<>>
    \/ fetches' # fetches
    \/ obs'.llmCalls > obs.llmCalls
    \/ snapshots' # snapshots
    \/ Len(change_events') # Len(change_events)

\* C12: a request whose authorization header is not the expected bearer value
\* is answered 401 and reads no source, makes no fetch, writes no snapshot and
\* no ChangeEvent and calls no analysis; work is done only inside a run, and a
\* run is entered only by a request carrying the expected value.
C12_UnauthenticatedNoWork ==
    [][ /\ \A a \in AuthHeaders :
             (a # ExpectedAuth /\ Request(a)) =>
                 /\ response' = Unauthorized
                 /\ pc' = "idle"
                 /\ ~WorkStep
        /\ WorkStep => (pc # "idle" /\ response = NoResponse)
        /\ (pc = "idle" /\ pc' # "idle") => Request(ExpectedAuth)
      ]_vars

\* a request was refused while the store holds rows of an earlier run
C12_Witness ==
    /\ response = Unauthorized
    /\ pc = "idle"
    /\ snapshots # <<>>
    /\ change_events # <<>>

-----------------------------------------------------------------------------
(* C13 *)

\* C13: when the read of the active sources fails, the run answers the failure
\* report {success: false, error: message} and fetches no source and writes no
\* snapshot and no ChangeEvent; and no other step of an authenticated run
\* produces a failure report.
C13_ListFailureAborts ==
    [][ /\ ListSources(FALSE, <<>>) =>
             /\ response' = FailureReport(ListFailedMessage)
             /\ pc' = "idle"
             /\ ~WorkStep
        /\ response'.kind = "failure" =>
             /\ response'.success = FALSE
             /\ response'.error = ListFailedMessage
             /\ pc' = "idle"
             /\ sources' = <<>> /\ results' = <<>>
        /\ (response'.kind = "failure" /\ response.kind # "failure") =>
             /\ pc = "list"
             /\ ~WorkStep
      ]_vars

\* a run was aborted by a failed read of the sources, after an earlier run in
\* which a source failed
C13_Witness ==
    /\ response = FailureReport(ListFailedMessage)
    /\ pc = "idle"
    /\ \E i \in 1..Len(snapshots) : snapshots[i].fetch_status = "error"

-----------------------------------------------------------------------------
(* C14 *)

\* the statuses an AnalysisResult may carry
StatusVocabulary == {"draft", "proposal", "final", "guidance", "unknown"}

InVocabulary(status) == status.t = "string" /\ status.v \in StatusVocabulary

\* C14: whatever the analysis service returned, the status of the
\* AnalysisResult, and of every ChangeEvent written, is one of draft, proposal,
\* final, guidance, unknown.
C14_StatusNormalized ==
    /\ pc = "insertEvent" => InVocabulary(cur.analysis.status)
    /\ \A e \in 1..Len(change_events) : InVocabulary(change_events[e].status)

\* C14, for the responses without a status and the failed calls: the status
\* is 'unknown'
C14_AbsentIsUnknown ==
    (pc = "insertEvent" /\
        (AnalysisThrows(obs.completion) \/ obs.completion.content \in {NULL, EmptyJson}))
        => cur.analysis.status = JsString("unknown")

-----------------------------------------------------------------------------
(* C15 *)

\* the service answered, with JSON that carries the boolean false as needsReview
ExplicitFalse(completion) ==
    /\ ~AnalysisThrows(completion)
    /\ JsonParse(IF completion.content = NULL THEN EmptyJson
                 ELSE completion.content).needsReview = JsBool(FALSE)

\* C15: the needsReview of the AnalysisResult is false only when the response
\* of the analysis service carried the boolean false, and true for an absent or
\* non-boolean value and for a failed call; every ChangeEvent is created with
\* that needs_review.
C15_NeedsReviewDefaultsTrue ==
    /\ pc = "insertEvent" =>
          (cur.analysis.needsReview = FALSE <=> ExplicitFalse(obs.completion))
    /\ Returned =>
          \A e \in NewEvents :
             \/ InsertedNeedingReview(change_events[e])
             \/ ExplicitFalse(obs.completion)

\* an event created from a response whose needsReview is the text "false"
C15_Witness ==
    /\ Returned
    /\ obs.completion = [rejected |-> FALSE, content |-> OddJson]
    /\ \E e \in NewEvents :
          change_events[e].needs_review /\ change_events[e].reviewed_at = NULL

-----------------------------------------------------------------------------
(* C16 *)

\* the fetch of the invocation succeeded and the most recent snapshot of the
\* source before it is an error snapshot
AfterErrorSnapshot ==
    /\ Returned
    /\ obs.fetch = "ok"
    /\ PreviousSnapshot.fetch_status = "error"

\* C16: a successful fetch that follows an error snapshot is classified as
\* changed whatever its content, and its ChangeEvent has the error snapshot's
\* id as snapshot_before_id.
C16_ErrorSnapshotComparison ==
    AfterErrorSnapshot =>
        /\ cur.result.status = "changed"
        /\ Cardinality(NewEvents) = 1
        /\ \A e \in NewEvents :
              change_events[e].snapshot_before_id = PreviousSnapshot.id

\* C16, for the invocations whose store calls were all answered
C16_WhenStoreAnswers ==
    (AfterErrorSnapshot /\ StoreAnswered) =>
        /\ cur.result.status = "changed"
        /\ Cardinality(NewEvents) = 1
        /\ \A e \in NewEvents :
              change_events[e].snapshot_before_id = PreviousSnapshot.id

\* C16, the decision alone: such a fetch is never classified as unchanged
C16_NeverUnchanged ==
    AfterErrorSnapshot => cur.result.status # "unchanged"

-----------------------------------------------------------------------------
(* C17 *)

\* the source of the event had no snapshot before the event's after-snapshot
NoSnapshotBefore(event) ==
    RowsOf(SubSeq(snapshots, 1, event.snapshot_after_id - 1), event.source_id) = {}

\* C17: every ChangeEvent with a null snapshot_before_id belongs to a source
\* that had no snapshot before that event's after-snapshot was written.
C17_NullBeforeOnlyFirst ==
    \A e \in 1..Len(change_events) :
        change_events[e].snapshot_before_id = NullId
            => NoSnapshotBefore(change_events[e])

\* C17, for the invocations whose lookup of the most recent snapshot was answered
C17_WhenLookupAnswers ==
    (Returned /\ "read" \notin obs.failed) =>
        \A e \in NewEvents :
            change_events[e].snapshot_before_id = NullId
                => NoSnapshotBefore(change_events[e])

-----------------------------------------------------------------------------
(* C18 *)

\* an invocation of checkSource is running or has just returned
InCheckSource == pc \notin {"idle", "list", "loop"}

\* the steps of the path that records a change, in their order
StepOrder == <<"fetch", "read", "write", "compare", "analyze", "event">>

IsPrefix(s, t) == Len(s) <= Len(t) /\ SubSeq(t, 1, Len(s)) = s

NotErrorStep(step) == step # "errorSnapshot"

Taken(step) == \E i \in 1..Len(obs.steps) : obs.steps[i] = step

\* C18: within an invocation the fetch precedes the lookup, the snapshot write
\* precedes the change decision, the analysis service is called at most once
\* and only after a decision that is not 'unchanged', the event insert comes
\* only after the analysis; a failed fetch and the unchanged path call no
\* analysis and insert no event.
C18_StepOrder ==
    InCheckSource =>
        /\ IsPrefix(SelectSeq(obs.steps, NotErrorStep), StepOrder)
        /\ Taken("read") => obs.fetch = "ok"
        /\ \A i \in NewSnapshots :
              Taken(IF snapshots[i].fetch_status = "success" THEN "write"
                    ELSE "errorSnapshot")
        /\ pc = "insertSnapshot" => NewSnapshots = {}
        /\ obs.llmCalls = Cardinality({i \in 1..Len(obs.steps) : obs.steps[i] = "analyze"})
        /\ obs.llmCalls <= 1
        /\ Taken("analyze") => ~Unchanged(cur.lastSnapshot, cur.rawHash)
        /\ ~Taken("event") => NewEvents = {}
        /\ \A e \in NewEvents :
              change_events[e].change_summary = cur.analysis.summary
        /\ (obs.fetch \in {"transport", "http", "body"}
               \/ (Taken("compare") /\ Unchanged(cur.lastSnapshot, cur.rawHash)))
              => (obs.llmCalls = 0 /\ NewEvents = {})

\* an invocation went through every step and wrote its event
C18_Witness ==
    /\ Returned
    /\ obs.steps = StepOrder
    /\ obs.llmCalls = 1
    /\ NewEvents # {}

-----------------------------------------------------------------------------
(* C19 *)

\* the step changes nothing of the pipeline: it is not a step of a run
NoPipelineStep ==
    UNCHANGED <<snapshots, pc, sources, idx, results, response, cur, obs, fetches>>

\* the row differs from what it was in needs_review, now false, and
\* reviewed_at, now a timestamp, and in nothing else
OnlyReviewFields(before, after) ==
    /\ after.needs_review = FALSE
    /\ after.reviewed_at # NULL
    /\ after = [before EXCEPT !.needs_review = after.needs_review,
                              !.reviewed_at = after.reviewed_at]

\* C19: every step keeps the existing snapshots and ChangeEvents as they are
\* and at most appends rows, except the review action, which is no step of a
\* run and changes needs_review (to false) and reviewed_at (to a timestamp) of
\* one event and nothing else.
C19_AppendOnly ==
    [][ /\ IsPrefix(snapshots, snapshots')
        /\ Len(change_events') >= Len(change_events)
        /\ \/ IsPrefix(change_events, change_events')
           \/ /\ NoPipelineStep
              /\ \E e \in 1..Len(change_events) :
                    /\ markReviewed(e, TRUE)
                    /\ OnlyReviewFields(change_events[e], change_events'[e])
                    /\ change_events' =
                          [change_events EXCEPT ![e] = change_events'[e]]
      ]_vars

\* one event has been reviewed and another one is still as it was inserted
C19_Witness ==
    \E e, f \in 1..Len(change_events) :
        /\ change_events[e].reviewed_at = ReviewTime
        /\ ~change_events[e].needs_review
        /\ change_events[f].reviewed_at = NULL
        /\ change_events[f].needs_review

-----------------------------------------------------------------------------
(* C20 *)

\* the row records the placeholder of a failed analysis
FromFailedAnalysis(row) ==
    /\ row.change_summary = FailedAnalysis.summary
    /\ row.tags = FailedAnalysis.tags

Pending(row) == MatchesFilter(row, "pending") /\ ~MatchesFilter(row, "reviewed")

Reviewed(row) == MatchesFilter(row, "reviewed") /\ ~MatchesFilter(row, "pending")

\* C20: a ChangeEvent created from a failed analysis is inserted matching the
\* 'pending' filter; no step of any run changes it; markReviewed on that event
\* is the only step that does, and after it the event matches the 'reviewed'
\* filter and no longer 'pending'.
C20_FailedAnalysisStaysPending ==
    [][ /\ (Len(change_events') > Len(change_events) /\ obs.llmFailed) =>
              FromFailedAnalysis(change_events'[Len(change_events')])
        /\ \A e \in 1..Len(change_events') :
              FromFailedAnalysis(change_events'[e]) =>
                 IF e > Len(change_events)
                 THEN Pending(change_events'[e])
                 ELSE \/ change_events'[e] = change_events[e]
                      \/ /\ Pending(change_events[e])
                         /\ markReviewed(e, TRUE)
                         /\ Reviewed(change_events'[e])
      ]_vars

\* an event of a failed analysis outlived a later invocation as pending and has
\* been reviewed after it
C20_Witness ==
    \E e \in 1..Len(change_events) :
        /\ FromFailedAnalysis(change_events[e])
        /\ Reviewed(change_events[e])
        /\ \E i \in 1..Len(snapshots) : i > change_events[e].snapshot_after_id

-----------------------------------------------------------------------------
(* C21 *)

\* the rows of the table that the step appended
Appended(before, after) == {i \in 1..Len(after) : i > Len(before)}

\* the snapshot is the newest row of the source in the table
NewestOf(snapshot, table, sourceId) ==
    /\ snapshot.id \in RowsOf(table, sourceId)
    /\ table[snapshot.id] = snapshot
    /\ \A j \in RowsOf(table, sourceId) : j <= snapshot.id

\* C21: a step of the processing of one source keeps every existing row,
\* appends only rows that carry the id of that source, and reads as latest
\* snapshot only the newest row of that source; the rows of every other source
\* are as they were, and no step outside checkSource writes a row.
C21_SourceIndependence ==
    [][ ~NoPipelineStep =>
          /\ IsPrefix(snapshots, snapshots')
          /\ IsPrefix(change_events, change_events')
          /\ \A i \in Appended(snapshots, snapshots') :
                InCheckSource /\ snapshots'[i].source_id = cur.source
          /\ \A e \in Appended(change_events, change_events') :
                InCheckSource /\ change_events'[e].source_id = cur.source
          /\ \A t \in SourceIds :
                (~InCheckSource \/ t # cur.source) =>
                    /\ RowsOf(snapshots', t) = RowsOf(snapshots, t)
                    /\ RowsOf(change_events', t) = RowsOf(change_events, t)
          /\ pc = "getLatest" =>
                \/ cur'.lastSnapshot = NullSnapshot
                \/ NewestOf(cur'.lastSnapshot, snapshots, cur.source)
          /\ (InCheckSource /\ pc \notin {"getLatest", "return"}) =>
                cur'.lastSnapshot = cur.lastSnapshot
      ]_vars

\* a source was observed for the first time, and its event written, in a store
\* that already held the snapshots of the other source
C21_Witness ==
    /\ Returned
    /\ \E i \in 1..obs.base : snapshots[i].source_id # cur.source
    /\ "read" \notin obs.failed
    /\ cur.lastSnapshot = NullSnapshot
    /\ NewSnapshots # {}
    /\ \E e \in NewEvents : change_events[e].snapshot_before_id = NullId

-----------------------------------------------------------------------------
(* C22 *)

\* the id names a stored snapshot of the source
SnapshotOf(id, sourceId) == id \in RowsOf(snapshots, sourceId) /\ snapshots[id].id = id

\* C22: every ChangeEvent's snapshot_after_id names a stored 'success'
\* snapshot of the event's source; its snapshot_before_id, when not null, names
\* a stored, earlier snapshot of that source; a 'success' snapshot's raw_hash
\* is the hash of its raw_html, and an 'error' snapshot has an empty raw_html and
\* an empty raw_hash.
C22_ReferentialConsistency ==
    /\ \A e \in 1..Len(change_events) :
          LET event == change_events[e]
          IN  /\ SnapshotOf(event.snapshot_after_id, event.source_id)
              /\ snapshots[event.snapshot_after_id].fetch_status = "success"
              /\ event.snapshot_before_id # NullId =>
                    /\ SnapshotOf(event.snapshot_before_id, event.source_id)
                    /\ event.snapshot_before_id < event.snapshot_after_id
    /\ \A i \in 1..Len(snapshots) :
          /\ snapshots[i].fetch_status \in {"success", "error"}
          /\ snapshots[i].fetch_status = "success" =>
                /\ snapshots[i].raw_html \in Contents
                /\ snapshots[i].raw_hash = Sha256(snapshots[i].raw_html)
          /\ snapshots[i].fetch_status = "error" =>
                /\ snapshots[i].raw_html = ""
                /\ snapshots[i].raw_hash = ""

\* an event whose before-snapshot is an error snapshot and whose after-snapshot
\* is the success snapshot that followed it
C22_Witness ==
    \E e \in 1..Len(change_events) :
        /\ change_events[e].snapshot_before_id # NullId
        /\ snapshots[change_events[e].snapshot_before_id].fetch_status = "error"
        /\ snapshots[change_events[e].snapshot_after_id].fetch_status = "success"

====
